---- MODULE Spec2Model ----
(***************************************************************************)
(* Analytics (src/extended_networkx_tools/Analytics.py): matrix builders,  *)
(* the second-largest / second-smallest selectors and the breadth-first    *)
(* reachability check, each modelled as the code computes it.              *)
(*                                                                         *)
(* A graph is the pair (nodes, adj): nodes is list(nxg.nodes()), the node  *)
(* identifiers in insertion order; adj[n] is the adjacency of n in the     *)
(* order nxg.neighbors(n) / nxg.edges(n) iterate it (the order in which    *)
(* the edges of n were added).  A self-loop appears once in adj[n].        *)
(***************************************************************************)
EXTENDS Integers, Sequences, FiniteSets, TLC

\* ---------------------------------------------------------------- bounds
\* Node identifiers are drawn from 0..MaxNodeId.
MaxNodeId == 2
\* A graph has at most MaxEdges edges (self-loops included).
MaxEdges == 3
\* The lists given to second_largest / second_smallest have at most MaxLen
\* elements, each finite one in -MaxVal..MaxVal.
MaxLen == 4
MaxVal == 1
\* A caller-supplied adjacency matrix is MaxDim x MaxDim at most.
MaxDim == 3

NodeIds == 0..MaxNodeId
\* One identifier more than any graph holds: a destination that is no node.
DestinationIds == 0..(MaxNodeId + 1)

VARIABLES
    nodes,            \* list(nxg.nodes()): identifiers in insertion order
    adj,              \* adj[n]: neighbours of n in adjacency order
    origin,           \* is_nodes_connected: parameter origin
    destination,      \* is_nodes_connected: parameter destination
    q,                \* is_nodes_connected: the FIFO queue
    seen,             \* is_nodes_connected: the set seen
    revisited,        \* history: nodes expanded while already in seen
    result,           \* is_nodes_connected: "none", "True", "False", "NetworkXError"
    numbers,          \* second_largest / second_smallest: parameter numbers
    sorted_list,      \* second_largest / second_smallest: parameter sorted_list
    sel,              \* second_largest / second_smallest: what the call gave
    self_assignment,  \* get_adjacency_matrix: parameter self_assignment
    ret,              \* matrix builders: what the call gave
    evInput,          \* the matrix handed to get_eigenvalues
    heap,             \* list objects by reference: heap[r] is the list's content
    adjacency_matrix, \* get_stochastic_neighbour_matrix: the reference passed
    given,            \* history: the content of the passed matrix at the call
    mxRef,            \* get_stochastic_neighbour_matrix: the reference returned
    pc                \* control point of the call in progress

graphVars == <<nodes, adj>>
bfsVars == <<origin, destination, q, seen, revisited, result>>
selVars == <<numbers, sorted_list, sel>>
mxVars == <<self_assignment, ret, evInput>>
heapVars == <<heap, adjacency_matrix, given, mxRef>>
vars == <<graphVars, bfsVars, selVars, mxVars, heapVars, pc>>

\* What a call that has not been made has given.
NoRet == [kind |-> "none", mx |-> <<>>]
NoSel == [kind |-> "none", val |-> 0]

\* The variables of the operations a specification does not exercise.
NoGraph == nodes = <<>> /\ adj = <<>>
NoBFS ==
    /\ origin = 0 /\ destination = 0 /\ q = <<>> /\ seen = {}
    /\ revisited = {} /\ result = "none"
NoSelect == numbers = <<>> /\ sorted_list = FALSE /\ sel = NoSel
NoMatrix == self_assignment = FALSE /\ ret = NoRet /\ evInput = <<>>
NoHeap == heap = <<>> /\ adjacency_matrix = 0 /\ given = <<>> /\ mxRef = 0

\* ------------------------------------------------------------ sequences
Range(s) == {s[i] : i \in 1..Len(s)}

\* Sequences over S without repetition, of length at most k.
RECURSIVE InjSeqs(_, _)
InjSeqs(S, k) ==
    IF k = 0 THEN {<<>>}
    ELSE LET prev == InjSeqs(S, k - 1)
         IN  prev \cup UNION {{Append(p, x) : x \in S \ Range(p)} :
                                 p \in {r \in prev : Len(r) = k - 1}}

\* s_nodes.sort(): the identifiers of S in ascending order.
RECURSIVE SortedSeq(_)
SortedSeq(S) ==
    IF S = {} THEN <<>>
    ELSE LET m == CHOOSE x \in S : \A y \in S : x <= y
         IN  <<m>> \o SortedSeq(S \ {m})

\* ---------------------------------------------------------------- graphs
\* The edges a graph over node set N may have: unordered pairs, {n} a self-loop.
Pairs(N) == {{u, v} : u \in N, v \in N}

\* The other end of edge e seen from n (n itself for a self-loop).
OtherEnd(n, e) == IF e = {n} THEN n ELSE CHOOSE m \in e : m # n

\* The adjacency of n after the edges of es were added in that order.
RECURSIVE NbrSeq(_, _)
NbrSeq(n, es) ==
    IF es = <<>> THEN <<>>
    ELSE LET rest == NbrSeq(n, Tail(es))
         IN  IF n \in Head(es) THEN <<OtherEnd(n, Head(es))>> \o rest ELSE rest

AdjOf(N, es) == [n \in N |-> NbrSeq(n, es)]

\* ----------------------------------------------- is_nodes_connected (BFS)
\* The queue never grows past this in the code; the guard only keeps the
\* state space finite.
QueueCap == 4 * (MaxEdges + 1)

\* for _, neighbour in nxg.edges(node_id): the neighbours in iteration order.
EdgesOfForward(node_id) == SelectSeq(adj[node_id], LAMBDA n : n >= node_id)
EdgesOf(node_id) == adj[node_id]

\* if neighbour not in seen: q.put(neighbour)
Unseen(nbrs, s) == SelectSeq(nbrs, LAMBDA n : n \notin s)

\* seen.add(node_id)
MarkSeenDropped(s, node_id) == s
MarkSeen(s, node_id) == s \cup {node_id}

\* The state after q.put(origin), for every graph, origin and destination.
\* is_nodes_connected never reads nxg.nodes(), so the insertion order of the
\* nodes is held ascending here; the edges come in every insertion order.
InitBFS ==
    /\ \E N \in SUBSET NodeIds : \E es \in InjSeqs(Pairs(N), MaxEdges) :
          /\ nodes = SortedSeq(N)
          /\ adj = AdjOf(N, es)
    /\ origin \in NodeIds
    /\ destination \in DestinationIds
    /\ q = <<origin>>
    /\ seen = {}
    /\ revisited = {}
    /\ result = "none"
    /\ pc = "loop"
    /\ NoSelect /\ NoMatrix /\ NoHeap

\* One iteration of "while not q.empty()".
BFSStep ==
    /\ pc = "loop"
    /\ q # <<>>
    /\ Len(q) <= QueueCap
    /\ LET node_id == Head(q)
       IN  IF node_id = destination
           THEN /\ result' = "True"
                /\ pc' = "done"
                /\ q' = Tail(q)
                /\ UNCHANGED <<seen, revisited>>
           ELSE /\ seen' = MarkSeen(seen, node_id)
                /\ revisited' = IF node_id \in seen THEN revisited \cup {node_id}
                                                   ELSE revisited
                /\ IF node_id \in DOMAIN adj
                   THEN /\ q' = Tail(q) \o Unseen(EdgesOf(node_id), seen')
                        /\ UNCHANGED <<result, pc>>
                   ELSE \* nxg.edges(node_id) raises for a node not in the graph
                        /\ q' = Tail(q)
                        /\ result' = "NetworkXError"
                        /\ pc' = "done"
    /\ UNCHANGED <<nodes, adj, origin, destination, selVars, mxVars, heapVars>>

\* The loop ends with the queue empty: return False.
BFSReturnFalse ==
    /\ pc = "loop"
    /\ q = <<>>
    /\ result' = "False"
    /\ pc' = "done"
    /\ UNCHANGED <<nodes, adj, origin, destination, q, seen, revisited>>
    /\ UNCHANGED <<selVars, mxVars, heapVars>>

NextBFS == BFSStep \/ BFSReturnFalse

\* The loop runs to its end: nothing suspends the call.
SpecBFS == InitBFS /\ [][NextBFS]_vars /\ WF_vars(NextBFS)

\* destination is reachable from origin along edges of the graph.
RECURSIVE Closure(_)
Closure(S) ==
    LET T == S \cup {m \in DOMAIN adj : \E n \in S \cap DOMAIN adj : m \in Range(adj[n])}
    IN  IF T = S THEN S ELSE Closure(T)

Reachable(a, b) == b \in Closure({a})

\* C1: for an origin that is a node of the graph, the call returns True iff
\* destination is reachable from origin (origin = destination included), and
\* it returns False exactly when the queue emptied without destination ever
\* having been dequeued.
C1_ReturnsReachability ==
    (pc = "done" /\ origin \in DOMAIN adj) =>
        /\ result \in {"True", "False"}
        /\ (result = "True") <=> Reachable(origin, destination)
        /\ (result = "False") <=> (q = <<>> /\ ~Reachable(origin, destination))
        /\ (result = "False") => destination \notin seen

C1_Witness ==
    /\ pc = "done"
    /\ result = "True"
    /\ origin \in DOMAIN adj
    /\ Cardinality(seen) >= 2

\* The guard of BFSStep on the queue's length never holds a step back.
QueueWithinCap == Len(q) < QueueCap

\* C8: the call terminates on every graph (cycles, self-loops, destination
\* unreachable or not a node): it ends, with True or with the queue empty and
\* False when origin is a node of the graph, and with True on the first
\* dequeue (nothing expanded) when origin = destination.
C8_Terminates ==
    /\ <>(pc = "done")
    /\ []((pc = "done" /\ origin \in DOMAIN adj) =>
            (result = "True" \/ (result = "False" /\ q = <<>>)))
    /\ []((pc = "done" /\ origin = destination) => (result = "True" /\ seen = {}))

C8_Witness ==
    /\ pc = "done"
    /\ result = "False"
    /\ destination \notin DOMAIN adj
    /\ revisited # {}

\* C9: no node is dequeued and expanded more than once.
C9_VisitedAtMostOnce == revisited = {}

\* ------------------------------------------ second_largest / second_smallest
\* float('inf') and float('-inf'): above and below every finite value.
Infinity == MaxVal + 1
NegInfinity == -Infinity
Values == NegInfinity..Infinity

Value(x) == [kind |-> "value", val |-> x]
None == [kind |-> "None", val |-> 0]
IndexError == [kind |-> "IndexError", val |-> 0]

\* numbers[i] as Python indexes a list: i from 0, a negative i from the end.
PyIndex(s, i) ==
    LET k == IF i < 0 THEN i + Len(s) ELSE i
    IN  IF k < 0 \/ k >= Len(s) THEN IndexError ELSE Value(s[k + 1])

\* The body of second_largest's loop on <<m1, m2>>.
LargestStepNoShift(m, x) ==
    IF x > m[2] THEN (IF x >= m[1] THEN <<x, m[2]>> ELSE <<m[1], x>>) ELSE m
LargestStep(m, x) ==
    IF x > m[2] THEN (IF x >= m[1] THEN <<x, m[1]>> ELSE <<m[1], x>>) ELSE m

\* The body of second_smallest's loop on <<m1, m2>>.
SmallestStep(m, x) ==
    IF x < m[2] THEN (IF x <= m[1] THEN <<x, m[1]>> ELSE <<m[1], x>>) ELSE m

RECURSIVE ScanLargest(_, _)
ScanLargest(s, m) ==
    IF s = <<>> THEN m ELSE ScanLargest(Tail(s), LargestStep(m, Head(s)))

RECURSIVE ScanSmallest(_, _)
ScanSmallest(s, m) ==
    IF s = <<>> THEN m ELSE ScanSmallest(Tail(s), SmallestStep(m, Head(s)))

second_largest(s, presorted) ==
    IF presorted THEN PyIndex(s, Len(s) - 2)
    ELSE IF Len(s) >= 2 THEN Value(ScanLargest(s, <<NegInfinity, NegInfinity>>)[2])
    ELSE None

second_smallest(s, presorted) ==
    IF presorted THEN PyIndex(s, 1)
    ELSE IF Len(s) >= 2 THEN Value(ScanSmallest(s, <<Infinity, Infinity>>)[2])
    ELSE None

\* Lists over S of length at most k.
RECURSIVE Lists(_, _)
Lists(S, k) ==
    IF k = 0 THEN {<<>>}
    ELSE LET prev == Lists(S, k - 1)
         IN  prev \cup {Append(p, x) : p \in {r \in prev : Len(r) = k - 1}, x \in S}

IsAscending(s) == \A i \in 1..(Len(s) - 1) : s[i] <= s[i + 1]

\* Every list, and for sorted_list = True every ascending one.
InitSelect ==
    /\ numbers \in Lists(Values, MaxLen)
    /\ sorted_list \in BOOLEAN
    /\ sorted_list => IsAscending(numbers)
    /\ sel = NoSel
    /\ pc = "idle"
    /\ NoGraph /\ NoBFS /\ NoMatrix /\ NoHeap

SecondLargest ==
    /\ pc = "idle"
    /\ sel' = second_largest(numbers, sorted_list)
    /\ pc' = "second_largest"
    /\ UNCHANGED <<graphVars, bfsVars, numbers, sorted_list, mxVars, heapVars>>

SecondSmallest ==
    /\ pc = "idle"
    /\ sel' = second_smallest(numbers, sorted_list)
    /\ pc' = "second_smallest"
    /\ UNCHANGED <<graphVars, bfsVars, numbers, sorted_list, mxVars, heapVars>>

NextSelect == SecondLargest \/ SecondSmallest

SpecSelect == InitSelect /\ [][NextSelect]_vars

\* The list in ascending order, by insertion.
RECURSIVE Insert(_, _)
Insert(x, s) ==
    IF s = <<>> THEN <<x>>
    ELSE IF x <= Head(s) THEN <<x>> \o s
    ELSE <<Head(s)>> \o Insert(x, Tail(s))

RECURSIVE SortAsc(_)
SortAsc(s) == IF s = <<>> THEN <<>> ELSE Insert(Head(s), SortAsc(Tail(s)))

\* C6: with fewer than 2 values both selectors return None, whether
\* sorted_list is False or True; never an element of the list, never a raise.
C6_NoneBelowTwo ==
    (pc \in {"second_largest", "second_smallest"} /\ Len(numbers) < 2) => sel = None

\* C7: on a list of at least 2 numbers the scan of second_largest gives the
\* element at index len-2 of the ascending list and the scan of second_smallest
\* the element at index 1, whatever the order of the list.
C7_ScanMatchesSorted ==
    (~sorted_list /\ Len(numbers) >= 2) =>
        /\ pc = "second_largest" => sel = Value(SortAsc(numbers)[Len(numbers) - 1])
        /\ pc = "second_smallest" => sel = Value(SortAsc(numbers)[2])

C7_Witness ==
    /\ pc = "second_largest"
    /\ ~sorted_list
    /\ Len(numbers) >= 3
    /\ ~IsAscending(numbers)
    /\ \E i, j \in 1..Len(numbers) : i # j /\ numbers[i] = numbers[j]
    /\ sel.kind = "value"

\* --------------------------------------------------------- matrix builders
\* A matrix is a sequence of rows, each a sequence of entries; row r of the
\* model is mx[r-1] of the code.

\* s_nodes = list(nxg.nodes()); s_nodes.sort()
s_nodes == SortedSeq(Range(nodes))

\* s_nodes.index(node), counted from 0 as the code counts it.
IndexOf(s, x) == CHOOSE i \in 0..(Len(s) - 1) : s[i + 1] = x

\* One row of get_adjacency_matrix: the row built for node.
AdjacencyRow(node, sa) ==
    [c \in 1..Len(s_nodes) |->
        IF \/ sa /\ c - 1 = IndexOf(s_nodes, node)
           \/ \E i \in 1..Len(adj[node]) : c - 1 = IndexOf(s_nodes, adj[node][i])
        THEN 1 ELSE 0]

\* for node in nxg.nodes(): ... mx.append(row)
get_adjacency_matrix(sa) == [r \in 1..Len(nodes) |-> AdjacencyRow(nodes[r], sa)]

\* What nx.degree gives for an identifier that is no node of the graph: no
\* number (a view object in networkx 2, an error in networkx 1).
NoDegree == -1

\* nx.degree(nxg, n): the edges at n, a self-loop counted twice.
Degree(n) ==
    IF n \in DOMAIN adj
    THEN Len(adj[n]) + (IF n \in Range(adj[n]) THEN 1 ELSE 0)
    ELSE NoDegree

\* One row of get_degree_matrix: nx.degree is asked about node_index, the
\* position of node in s_nodes, not about node.
DegreeRow(node) ==
    LET node_index == IndexOf(s_nodes, node)
    IN  [c \in 1..Len(s_nodes) |-> IF c - 1 = node_index THEN Degree(node_index) ELSE 0]

DegreeRows == [r \in 1..Len(nodes) |-> DegreeRow(nodes[r])]

HasNoDegree(m) == \E r \in 1..Len(m) : \E c \in 1..Len(m[r]) : m[r][c] = NoDegree

Matrix(m) == [kind |-> "matrix", mx |-> m]
Raised(e) == [kind |-> e, mx |-> <<>>]
\* A float result, whose value is not followed.
Float == [kind |-> "float", mx |-> <<>>]

\* get_degree_matrix: the rows, or the error of the degree lookup.
get_degree_matrix ==
    IF HasNoDegree(DegreeRows)
    THEN {Matrix(DegreeRows), Raised("NetworkXError")}
    ELSE {Matrix(DegreeRows)}

\* get_laplacian_matrix: row[c] = degree_matrix[r][c] - adjacency_matrix[r][c];
\* an entry that is no number makes the subtraction raise.
get_laplacian_matrix ==
    LET A == get_adjacency_matrix(FALSE)
    IN  {IF d.kind # "matrix" THEN d
         ELSE IF HasNoDegree(d.mx) THEN Raised("TypeError")
         ELSE Matrix([r \in 1..Len(A) |->
                        [c \in 1..Len(A) |-> d.mx[r][c] - A[r][c]]]) :
         d \in get_degree_matrix}

\* Numbers as reduced fractions <<n, d>>, d > 0; the integer x is <<x, 1>>
\* (Python holds 1 == 1.0).
RECURSIVE Gcd(_, _)
Gcd(a, b) == IF b = 0 THEN a ELSE Gcd(b, a % b)

Abs(x) == IF x < 0 THEN -x ELSE x

Reduce(n, d) == LET g == Gcd(Abs(n), d) IN <<n \div g, d \div g>>

FracAdd(a, b) == Reduce(a[1] * b[2] + b[1] * a[2], a[2] * b[2])

\* x / y for a fraction x and a fraction y > 0.
FracDiv(x, y) == Reduce(x[1] * y[2], x[2] * y[1])

Fractions(m) == [r \in 1..Len(m) |-> [c \in 1..Len(m[r]) |-> <<m[r][c], 1>>]]

\* sum(mx[row_id])
RECURSIVE RowSum(_)
RowSum(row) == IF row = <<>> THEN <<0, 1>> ELSE FracAdd(Head(row), RowSum(Tail(row)))

\* The loop of get_stochastic_neighbour_matrix from row row_id on: each row is
\* replaced in mx by its entries divided by the row's sum; a row summing to 0
\* raises ZeroDivisionError with the rows before it already replaced.
RECURSIVE StochasticRows(_, _)
StochasticRows(mx, row_id) ==
    IF row_id > Len(mx) THEN [mx |-> mx, raised |-> FALSE]
    ELSE LET row_sum == RowSum(mx[row_id])
         IN  IF row_sum[1] = 0 THEN [mx |-> mx, raised |-> TRUE]
             ELSE StochasticRows(
                      [mx EXCEPT ![row_id] =
                          [c \in 1..Len(mx[row_id]) |-> FracDiv(mx[row_id][c], row_sum)]],
                      row_id + 1)

\* get_stochastic_neighbour_matrix(nxg): on get_adjacency_matrix(nxg, True).
StochasticOfGraph ==
    LET n == StochasticRows(Fractions(get_adjacency_matrix(TRUE)), 1)
    IN  IF n.raised THEN Raised("ZeroDivisionError") ELSE Matrix(n.mx)

\* Every graph: the nodes in every insertion order, the edges in every order.
InitMatrix ==
    /\ nodes \in InjSeqs(NodeIds, MaxNodeId + 1)
    /\ \E es \in InjSeqs(Pairs(Range(nodes)), MaxEdges) : adj = AdjOf(Range(nodes), es)
    /\ self_assignment = FALSE
    /\ ret = NoRet
    /\ evInput = <<>>
    /\ pc = "idle"
    /\ NoBFS /\ NoSelect /\ NoHeap

GetAdjacencyMatrix ==
    /\ pc = "idle"
    /\ self_assignment' \in BOOLEAN
    /\ ret' = Matrix(get_adjacency_matrix(self_assignment'))
    /\ pc' = "get_adjacency_matrix"
    /\ UNCHANGED <<graphVars, bfsVars, selVars, evInput, heapVars>>

GetDegreeMatrix ==
    /\ pc = "idle"
    /\ ret' \in get_degree_matrix
    /\ pc' = "get_degree_matrix"
    /\ UNCHANGED <<graphVars, bfsVars, selVars, self_assignment, evInput, heapVars>>

GetLaplacianMatrix ==
    /\ pc = "idle"
    /\ ret' \in get_laplacian_matrix
    /\ pc' = "get_laplacian_matrix"
    /\ UNCHANGED <<graphVars, bfsVars, selVars, self_assignment, evInput, heapVars>>

GetStochasticNeighbourMatrix ==
    /\ pc = "idle"
    /\ ret' = StochasticOfGraph
    /\ pc' = "get_stochastic_neighbour_matrix"
    /\ UNCHANGED <<graphVars, bfsVars, selVars, self_assignment, evInput, heapVars>>

\* convergence_rate(nxg): A = get_stochastic_neighbour_matrix(nxg);
\* ev = get_eigenvalues(A).  The eigenvalues are not computed here: the call
\* is followed up to the matrix it hands to linalg.eigvalsh.
ConvergenceRate ==
    /\ pc = "idle"
    /\ evInput' = StochasticOfGraph.mx
    /\ ret' = Float
    /\ pc' = "convergence_rate"
    /\ UNCHANGED <<graphVars, bfsVars, selVars, self_assignment, heapVars>>

\* convergence_rate2(nxg): the same matrix, the same solver.
ConvergenceRate2 ==
    /\ pc = "idle"
    /\ evInput' = StochasticOfGraph.mx
    /\ ret' = Float
    /\ pc' = "convergence_rate2"
    /\ UNCHANGED <<graphVars, bfsVars, selVars, self_assignment, heapVars>>

NextMatrix ==
    \/ GetAdjacencyMatrix
    \/ GetDegreeMatrix
    \/ GetLaplacianMatrix
    \/ GetStochasticNeighbourMatrix
    \/ ConvergenceRate
    \/ ConvergenceRate2

SpecMatrix == InitMatrix /\ [][NextMatrix]_vars

IsSymmetric(m) ==
    \A i \in 1..Len(m) : \A j \in 1..Len(m) : m[i][j] = m[j][i]

\* C2: the adjacency matrix built without self-assignment is symmetric,
\* A[i][j] = A[j][i], whatever the insertion order of the nodes.
C2_AdjacencySymmetric ==
    (pc = "get_adjacency_matrix" /\ ~self_assignment) => IsSymmetric(ret.mx)

RECURSIVE IntSum(_)
IntSum(row) == IF row = <<>> THEN 0 ELSE Head(row) + IntSum(Tail(row))

\* C3: get_laplacian_matrix returns a matrix every row of which sums to 0,
\* for every choice of identifiers, insertion order and edges (self-loops
\* included).
C3_LaplacianRowsSumToZero ==
    pc = "get_laplacian_matrix" =>
        /\ ret.kind = "matrix"
        /\ \A r \in 1..Len(ret.mx) : IntSum(ret.mx[r]) = 0

\* C4: get_degree_matrix returns an N x N matrix with D[i][i] the degree of
\* the i-th node in ascending identifier order and 0 off the diagonal.
C4_DegreeDiagonal ==
    pc = "get_degree_matrix" =>
        /\ ret.kind = "matrix"
        /\ Len(ret.mx) = Len(nodes)
        /\ \A i \in 1..Len(nodes) :
              /\ Len(ret.mx[i]) = Len(nodes)
              /\ \A j \in 1..Len(nodes) :
                    ret.mx[i][j] = IF i = j THEN Degree(s_nodes[i]) ELSE 0

\* C10: the row-normalized matrix convergence_rate and convergence_rate2 hand
\* to get_eigenvalues is symmetric, S[i][j] = S[j][i].
C10_EigenInputSymmetric ==
    pc \in {"convergence_rate", "convergence_rate2"} => IsSymmetric(evInput)

\* ------------------- get_stochastic_neighbour_matrix(adjacency_matrix = M)
\* 0/1 matrices of dimension d.
ZeroOneRows(d) == [1..d -> {0, 1}]
ZeroOneMatrices(d) == [1..d -> ZeroOneRows(d)]

\* The caller's list M is the object at reference 1.
InitHeap ==
    /\ \E d \in 0..MaxDim : \E M \in ZeroOneMatrices(d) :
          /\ heap = <<Fractions(M)>>
          /\ given = Fractions(M)
    /\ adjacency_matrix = 1
    /\ mxRef = 0
    /\ pc = "idle"
    /\ NoGraph /\ NoBFS /\ NoSelect /\ NoMatrix

\* mx = adjacency_matrix binds the same list object: mx[row_id] = ... writes
\* into the caller's list, and return mx returns that object.
GetStochasticOfMatrix ==
    /\ pc = "idle"
    /\ LET mx == adjacency_matrix
           n == StochasticRows(heap[mx], 1)
       IN  /\ heap' = [heap EXCEPT ![mx] = n.mx]
           /\ mxRef' = IF n.raised THEN 0 ELSE mx
           /\ pc' = IF n.raised THEN "ZeroDivisionError" ELSE "returned"
    /\ UNCHANGED <<graphVars, bfsVars, selVars, mxVars, adjacency_matrix, given>>

NextHeap == GetStochasticOfMatrix

SpecHeap == InitHeap /\ [][NextHeap]_vars

\* C5: the call leaves the caller's matrix M unchanged, every row holding the
\* entries it held before, and returns an object other than M.
C5_ArgumentUnchanged ==
    /\ pc # "idle" => heap[adjacency_matrix] = given
    /\ pc = "returned" => mxRef # adjacency_matrix

====
